---- MODULE Spec2Model ----
(***************************************************************************)
(* Checkout and settlement of smartsales365-backend                        *)
(* (apps/ventas/views.py, apps/comercial, apps/saas).                      *)
(*                                                                         *)
(* Money is an integer number of ten-thousandths of a boliviano            *)
(* (Unidad = 0.0001 bs), so that the product subtotal * percentage / 100   *)
(* of calcular_costo_envio is exact before it is quantized to cents, and   *)
(* Decimal.quantize and int() are modelled by what they compute.           *)
(***************************************************************************)
EXTENDS Integers, Sequences, FiniteSets, TLC

\* ------------------------------------------------------------------ bounds
MaxSesiones == 2
MaxLlamadas == 2
MaxEdiciones == 1
MaxCantidad == 2
StockInicial == 2
MaxSubtotalCentavos == 150100
MaxPedidos == 2
MaxRegistros == 2
MaxGuardados == 4
MaxPeticiones == 2
MaxTiempo == 17
MaxUsos == 3

\* --------------------------------------------------------------- constants
\* units of 0.0001 bs in Decimal('0.01'), the quantum of views.py:45
Centavo == 100
\* units of 0.0001 bs in one boliviano
Boliviano == 100 * Centavo

Productos == {1, 2}
Tiendas == {1, 2}
Workers == {1, 2}
\* catalogue prices (DecimalField with 2 decimal places): 10.00 and 500.00 bs
PrecioInicial == (1 :> 10 * Boliviano) @@ (2 :> 500 * Boliviano)
Precios == {10 * Boliviano, 500 * Boliviano}
\* shapes of the item lists a client sends: the products named, in order
Formas == {<<1>>, <<1, 2>>, <<2, 1>>, <<1, 1>>}

\* ------------------------------------------------------------ Decimal math
\* Decimal.quantize under the default context (ROUND_HALF_EVEN): n/d rounded
\* to an integer, n >= 0, d > 0.
RoundHalfEven(n, d) ==
    LET q == n \div d
        r == n % d
    IN  IF 2 * r < d THEN q
        ELSE IF 2 * r > d THEN q + 1
        ELSE IF q % 2 = 0 THEN q ELSE q + 1

\* ROUND_HALF_UP, the rounding the docstring's "identical to the frontend"
\* and the specification's "standard rounding" name.
RoundHalfUp(n, d) == (2 * n + d) \div (2 * d)

\* Python's int() of a non-negative Decimal amount times 100: whole cents.
IntCentavos(monto) == IF monto >= 0 THEN monto \div Centavo
                      ELSE -((-monto) \div Centavo)

\* (mutant: the boundaries 100, 500 and 1000 compared with <=)
porcentaje_envio_inclusivo(subtotal) ==
    IF subtotal = 0 THEN 0
    ELSE IF subtotal <= 100 * Boliviano THEN 15
    ELSE IF subtotal <= 500 * Boliviano THEN 10
    ELSE IF subtotal <= 1000 * Boliviano THEN 5
    ELSE 0
\* views.py:33-42, the tier of a subtotal
porcentaje_envio(subtotal) ==
    IF subtotal = 0 THEN 0
    ELSE IF subtotal < 100 * Boliviano THEN 15
    ELSE IF subtotal < 500 * Boliviano THEN 10
    ELSE IF subtotal < 1000 * Boliviano THEN 5
    ELSE 0

\* views.py:45, quantize without a rounding argument
Quantize(n, d) == RoundHalfEven(n, d)

\* views.py:28-45. subtotal * pct is the exact surcharge in units of
\* 0.000001 bs; it is quantized to cents and returned in units of 0.0001 bs.
calcular_costo_envio(subtotal) ==
    Centavo * Quantize(subtotal * porcentaje_envio(subtotal), 100 * Centavo)


\* ------------------------------------------------------------------- state
VARIABLES
    carritoConTotal,  \* does the deployed Carrito accept total / precio_unitario
    stock,            \* Producto.stock, committed
    precio,           \* Producto.precio, committed
    tienda_de,        \* Producto.tienda, set when the product is created
    log_precios,      \* the LogPrecioProducto rows, oldest first
    lock,             \* holder of the row lock of each Producto (0: free)
    asociacion,       \* per store: a committed TiendaCliente row exists
    asocLock,         \* per store: worker holding an uncommitted
                      \* TiendaCliente insert (0: none)
    puntos,           \* Cliente.puntos_acumulados, committed (IntegerField)
    carritos, detalles_carrito, ventas, detalles_venta, pagos, envios,
    sesiones,         \* the provider's checkout sessions, by session id
    req,              \* per worker: the verificar_sesion_checkout in progress
    respuestas,       \* per session: the responses returned so far, in order
    llamadas,         \* confirmation requests started so far
    edit,             \* a catalogue edit (PATCH of a Producto) in progress
    ediciones,        \* catalogue edits saved so far
    editados,         \* products whose row a catalogue edit has written
    subtotal_in, costo_out, \* input and result of the pricing calculator
    http,             \* the answer given to the last malformed order
    pedidos,          \* orders committed by confirmar_pedido so far
    suscripcion,      \* the provider's checkout session of a store sign-up
    registro,         \* per worker: the confirmar_registro_pago in progress
    cuentas,          \* rows created for the sign-up, by table
    resp_registro,    \* the responses of confirmar_registro_pago, in order
    registros,        \* confirmar_registro_pago requests started so far
    venta_vend,       \* Venta rows saved through the model, by id
    ventas_realizadas, \* Vendedor.ventas_realizadas of the salesperson
    guardados,        \* Venta.save() calls so far
    bitacoraConTienda, \* whether the tables are those the views write to
                      \* (Bitacora.tienda, Tienda.slug, Administrador.tienda)
    usuarios_p,       \* committed User rows of trial sign-ups, by e-mail
    bitacora_p,       \* committed Bitacora rows
    pet,              \* the registro_directo_prueba request of each worker
    hist_p,           \* answered trial sign-ups: input, path, answer, effect
    peticiones,       \* registro_directo_prueba requests started so far
    ahora,            \* timezone.now(), in minutes
    token,            \* the Token row of one key: whether it exists, created
    aut,              \* the authenticate_credentials call of each worker
    usos,             \* answered uses of the key: order, time, accepted
    usuario,          \* request.user as IsTenantActive sees it
    permiso,          \* what has_permission returned, "" before the call
    estado_prod       \* Producto.estado, committed (False: soft-deleted)

db == <<stock, precio, tienda_de, log_precios, asociacion, puntos, carritos,
        detalles_carrito, ventas, detalles_venta, pagos, envios>>
ctl == <<carritoConTotal, lock, asocLock, sesiones, req, respuestas, llamadas,
         edit, ediciones, editados>>
calc == <<subtotal_in, costo_out>>
intake == <<http, pedidos>>
signup == <<suscripcion, registro, cuentas, resp_registro, registros>>
vend == <<venta_vend, ventas_realizadas, guardados>>
prueba == <<bitacoraConTienda, usuarios_p, bitacora_p, pet, hist_p, peticiones>>
tok == <<ahora, token, aut, usos>>
perm == <<usuario, permiso>>
baja == <<estado_prod>>
aux == <<vend, prueba, tok, perm, baja>>
base == <<db, ctl, calc, intake, signup>>
vars == <<base, aux>>
\* what the actions of one group leave alone
sin_vend == <<base, prueba, tok, perm, baja>>
sin_prueba == <<base, vend, tok, perm, baja>>
sin_tok == <<base, vend, prueba, perm, baja>>
sin_perm == <<base, vend, prueba, tok, baja>>
sin_baja == <<vend, prueba, tok, perm>>

Sesiones == 1..MaxSesiones

\* The item lists of a request body: a list of {producto_id, cantidad}
Item(p, c) == [producto_id |-> p, cantidad |-> c]
ListasDeItems ==
    UNION { { [i \in 1..Len(f) |-> Item(f[i], qs[i])] :
                qs \in [1..Len(f) -> 1..MaxCantidad] } : f \in Formas }

RECURSIVE Suma(_, _)
\* sum of f[i] for i in 1..n
Suma(f, n) == IF n = 0 THEN 0 ELSE f[n] + Suma(f, n - 1)

\* units of product p in an item list
CantidadDe(items, p) ==
    Suma([i \in 1..Len(items) |->
            IF items[i].producto_id = p THEN items[i].cantidad ELSE 0],
         Len(items))

ReqIdle == [pc |-> "idle", sesion |-> 0, idx |-> 0, subtotal |-> 0,
            tomados |-> <<>>, conc |-> FALSE, puntos |-> 0, consultas |-> 0]
\* saas/views.py:325-335, a confirmar_registro_pago that has not started:
\* consultas counts its Session.retrieve calls, primero is the payment_status
\* the first of them returned
RegIdle == [pc |-> "idle", consultas |-> 0, primero |-> "",
            payment_status |-> "", invoice |-> FALSE]
\* before the sign-up: an unpaid session, no account
SinRegistros ==
    /\ suscripcion = [payment_status |-> "unpaid", invoice |-> FALSE]
    /\ registro = [w \in Workers |-> RegIdle]
    /\ cuentas = [usuarios |-> 0, tiendas |-> 0, administradores |-> 0,
                  pagos_suscripcion |-> 0]
    /\ resp_registro = <<>>
    /\ registros = 0
SinRespuesta == [op |-> "", status |-> ""]
EditIdle == [pc |-> "idle", producto |-> 0, stock |-> 0, estado |-> TRUE]

\* the Ventas of the salesperson's counter
VentasVendedor == {1, 2}
EstadosVenta == {"PROCESADA", "ENVIADA", "ENTREGADA", "CANCELADA"}
SinFila == [existe |-> FALSE, estado |-> "", vendedor |-> FALSE]
\* no Venta saved, a salesperson with no sales
SinVentasVendedor ==
    /\ venta_vend = [v \in VentasVendedor |-> SinFila]
    /\ ventas_realizadas = 0
    /\ guardados = 0
Correos == {1, 2}
PetIdle == [pc |-> "idle", email |-> 0, pendiente |-> FALSE,
            needs_rollback |-> FALSE, fila_bitacora |-> FALSE, log |-> ""]
\* no trial sign-up yet
SinPeticiones ==
    /\ usuarios_p = {}
    /\ bitacora_p = 0
    /\ pet = [w \in Workers |-> PetIdle]
    /\ hist_p = {}
    /\ peticiones = 0
AutIdle == [pc |-> "idle", created |-> 0, t |-> 0]
\* a token created now, not used yet
TokenNuevo ==
    /\ ahora = 0
    /\ token = [existe |-> TRUE, created |-> 0]
    /\ aut = [w \in Workers |-> AutIdle]
    /\ usos = {}
\* comercial/models.py: Producto.estado defaults to True
TodosActivos == estado_prod = [p \in Productos |-> TRUE]
Anonimo == [autenticado |-> FALSE, rol |-> "", perfil |-> "",
            estado_tienda |-> "ACTIVO"]
\* no permission asked
SinPermiso ==
    /\ usuario = Anonimo
    /\ permiso = ""
SinAux ==
    /\ SinVentasVendedor
    /\ bitacoraConTienda = FALSE
    /\ SinPeticiones
    /\ TokenNuevo
    /\ SinPermiso
    /\ TodosActivos

\* Django's Model.__init__ raises TypeError for a keyword that names no field.
\* comercial/models.py:123-133 declares Carrito(fecha_creacion, tienda,
\* cliente) and :143-153 Detalle_Carrito(cantidad, producto, carrito), while
\* ventas/views.py:235-239, 252-257 and comercial/views.py:644-648, 694-699
\* pass total and precio_unitario.  carritoConTotal = FALSE is the schema as
\* declared; TRUE is the schema the two views are written against.
Init ==
    /\ carritoConTotal \in BOOLEAN
    /\ stock = [p \in Productos |-> StockInicial]
    /\ precio = PrecioInicial
    /\ tienda_de \in {[p \in Productos |-> 1], [p \in Productos |-> p]}
    /\ lock = [p \in Productos |-> 0]
    /\ \E b \in BOOLEAN : asociacion = [t \in Tiendas |-> b]
    /\ asocLock = [t \in Tiendas |-> 0]
    /\ puntos = 0
    /\ log_precios = <<>>
    /\ carritos = <<>> /\ detalles_carrito = <<>> /\ ventas = <<>>
    /\ detalles_venta = <<>> /\ pagos = <<>> /\ envios = <<>>
    /\ sesiones = <<>>
    /\ req = [w \in Workers |-> ReqIdle]
    /\ respuestas = [s \in Sesiones |-> <<>>]
    /\ llamadas = 0
    /\ edit = EditIdle
    /\ ediciones = 0
    /\ editados = {}
    /\ subtotal_in = 0 /\ costo_out = 0
    /\ http = SinRespuesta /\ pedidos = 0
    /\ SinRegistros
    /\ SinAux

\* ---------------------------------------------------- crear_sesion_checkout
\* views.py:97-109, the subtotal accumulated over the items at the prices pr
Subtotal(items, pr) ==
    Suma([i \in 1..Len(items) |->
            pr[items[i].producto_id] * items[i].cantidad], Len(items))

\* (mutant: int(costo_envio) * 100, the shipping line in whole bolivianos)
LineaEnvioEntera(subtotal) ==
    LET costo_envio == calcular_costo_envio(subtotal)
    IN  IF costo_envio > 0
        THEN <<[unit_amount |-> (costo_envio \div Boliviano) * 100,
                quantity |-> 1]>>
        ELSE <<>>
\* views.py:142-152, the shipping line, present only when the cost is > 0
LineaEnvio(subtotal) ==
    LET costo_envio == calcular_costo_envio(subtotal)
    IN  IF costo_envio > 0
        THEN <<[unit_amount |-> IntCentavos(costo_envio), quantity |-> 1]>>
        ELSE <<>>

\* views.py:95-152, line_items_for_stripe
LineItems(items, pr) ==
    [i \in 1..Len(items) |->
        [unit_amount |-> IntCentavos(pr[items[i].producto_id]),
         quantity |-> items[i].cantidad]]
    \o LineaEnvio(Subtotal(items, pr))

\* the provider's amount_total, in cents: sum of unit_amount * quantity
AmountTotal(lineas) ==
    Suma([i \in 1..Len(lineas) |-> lineas[i].unit_amount * lineas[i].quantity],
         Len(lineas))

\* (mutant: Producto.objects.get(pk=...) without tienda=tienda)
ProductoDeCualquierTienda(tienda_id, p) == TRUE
\* views.py:99-103, Producto.objects.get(pk=..., tienda=tienda, estado=True)
\* finds a row
ProductoDeTienda(tienda_id, p) == tienda_de[p] = tienda_id /\ estado_prod[p]

\* The orders the specification calls malformed: no store or an unknown one,
\* no items, or an item whose quantity is zero or negative (the cases
\* comercial/views.py:619-666 validates)
Malformado(tienda_id, items) ==
    \/ tienda_id \notin Tiendas
    \/ items = <<>>
    \/ \E i \in 1..Len(items) : items[i].cantidad <= 0

\* the answer to a malformed order is kept in http
Registrar(op, tienda_id, items, status) ==
    http' = IF Malformado(tienda_id, items)
            THEN [op |-> op, status |-> status]
            ELSE http

\* the first index in 1..n at which f holds, 0 if there is none: the
\* iteration at which a loop over the items raises
PrimerIndice(f, n) ==
    IF \E i \in 1..n : f[i]
    THEN CHOOSE i \in 1..n : f[i] /\ \A j \in 1..(i - 1) : ~f[j]
    ELSE 0

\* views.py:74-173, the status crear_sesion_checkout answers with.  tienda_id
\* 0 stands for a body without tienda_id; acepta is whether the provider
\* creates the session it is asked for.
RespuestaCrearSesion(tienda_id, items, acepta) ==
    IF tienda_id = 0 \/ items = <<>> THEN "400"
    ELSE IF tienda_id \notin Tiendas THEN "404"
    ELSE LET noEsta == [i \in 1..Len(items) |->
                          ~ProductoDeTienda(tienda_id, items[i].producto_id)]
             sinStock == [i \in 1..Len(items) |->
                          stock[items[i].producto_id] < items[i].cantidad]
             k == PrimerIndice([i \in 1..Len(items) |->
                                  noEsta[i] \/ sinStock[i]], Len(items))
         IN  IF k # 0 THEN (IF noEsta[k] THEN "404" ELSE "400")
             ELSE IF acepta THEN "200" ELSE "500"

\* views.py:60-173.  A session is created only when every item names a
\* product of the store (404 otherwise) and passes the stock check of line
\* 106, and the provider creates it; nothing is written to the database.
CrearSesion(tienda_id, items, acepta) ==
    LET status == RespuestaCrearSesion(tienda_id, items, acepta)
    IN  /\ Len(sesiones) < MaxSesiones
        /\ IF status = "200"
           THEN sesiones' = Append(sesiones,
                    [tienda |-> tienda_id,
                     items |-> items,
                     amount_total |-> AmountTotal(LineItems(items, precio)),
                     status |-> "open",
                     cotizado |-> precio])
           ELSE UNCHANGED sesiones
        /\ Registrar("crear_sesion_checkout", tienda_id, items, status)
        /\ UNCHANGED <<db, carritoConTotal, lock, asocLock, req, respuestas,
                       llamadas, edit, ediciones, editados, calc, pedidos,
                       signup, aux>>

\* The customer pays on the provider's page: the session becomes complete
\* and carries a payment_intent (the session id stands for it).  There is
\* nothing to pay in a session whose amount is not positive.
PagarSesion(s) ==
    /\ s \in 1..Len(sesiones)
    /\ sesiones[s].status = "open"
    /\ sesiones[s].amount_total > 0
    /\ sesiones' = [sesiones EXCEPT ![s].status = "complete"]
    /\ UNCHANGED <<db, carritoConTotal, lock, asocLock, req, respuestas,
                   llamadas, edit, ediciones, editados, calc, intake, signup, aux>>


\* ------------------------------------------------ verificar_sesion_checkout
Otro(w) == CHOOSE v \in Workers : v # w

\* The response of a finished request is recorded, the worker becomes idle
\* and the transaction's row locks are released (commit or rollback).
Responder(w, tipo) ==
    /\ respuestas' = [respuestas EXCEPT ![req[w].sesion] =
                        Append(@, [tipo |-> tipo, conc |-> req[w].conc,
                                   idx |-> req[w].idx,
                                   consultas |-> req[w].consultas])]
    /\ req' = [req EXCEPT ![w] = ReqIdle]
    /\ lock' = [p \in Productos |-> IF lock[p] = w THEN 0 ELSE lock[p]]
    /\ asocLock' = [t \in Tiendas |->
                        IF asocLock[t] = w THEN 0 ELSE asocLock[t]]

\* (mutant: no transaction.atomic, the Carrito row created at views.py:235
\* and the TiendaCliente row of 219 survive the exception)
RollbackSinAtomic(w) ==
    /\ carritos' = Append(carritos,
                      [tienda |-> sesiones[req[w].sesion].tienda,
                       total |-> sesiones[req[w].sesion].amount_total * Centavo])
    /\ asociacion' = [asociacion EXCEPT
                        ![sesiones[req[w].sesion].tienda] = TRUE]
    /\ UNCHANGED <<stock, precio, tienda_de, log_precios, puntos,
                   detalles_carrito, ventas, detalles_venta, pagos, envios>>
\* views.py:215, 310-312: an exception leaves transaction.atomic, every write
\* of the block is rolled back and the view answers 500.
Rollback(w) == UNCHANGED db

Fallar(w, tipo) == Rollback(w) /\ Responder(w, tipo)

\* (mutant: no status check, every retrieved session is taken as paid)
SesionCompletaSiempre(session) == TRUE
\* views.py:191
SesionCompleta(session) == session.status = "complete"

\* views.py:183-212: the session is retrieved from the provider, once; a
\* session that is not complete is answered 400 before anything is written.
V_Inicio(w, s) ==
    /\ req[w].pc = "idle"
    /\ llamadas < MaxLlamadas
    /\ s \in 1..Len(sesiones)
    /\ llamadas' = llamadas + 1
    /\ IF ~SesionCompleta(sesiones[s])
       THEN /\ respuestas' = [respuestas EXCEPT ![s] =
                    Append(@, [tipo |-> "no_completada", conc |-> FALSE,
                               idx |-> 0, consultas |-> 1])]
            /\ UNCHANGED req
       ELSE /\ req' = [v \in Workers |->
                    IF v = w
                    THEN [ReqIdle EXCEPT !.pc = "abrir", !.sesion = s,
                                         !.consultas = 1,
                                         !.conc = (req[Otro(w)].pc # "idle")]
                    ELSE IF req[v].pc # "idle"
                         THEN [req[v] EXCEPT !.conc = TRUE]
                         ELSE req[v]]
            /\ UNCHANGED respuestas
    /\ UNCHANGED <<db, carritoConTotal, lock, asocLock, sesiones, edit,
                   ediciones, editados, calc, intake, signup, aux>>

\* views.py:215-239: the transaction opens, Cliente.objects.get reads the
\* customer row without a lock, TiendaCliente.get_or_create (the insert of a
\* row another open transaction has inserted waits for that transaction) and
\* Carrito.objects.create(total=...).
V_Abrir(w) ==
    LET tienda == sesiones[req[w].sesion].tienda
    IN  /\ req[w].pc = "abrir"
        /\ asociacion[tienda] \/ asocLock[tienda] \in {0, w}
        /\ IF carritoConTotal
           THEN /\ req' = [req EXCEPT ![w].pc = "items", ![w].idx = 1,
                                      ![w].puntos = puntos]
                /\ asocLock' = IF asociacion[tienda] THEN asocLock
                               ELSE [asocLock EXCEPT ![tienda] = w]
                /\ UNCHANGED <<db, lock, respuestas>>
           ELSE Fallar(w, "type_error")
    /\ UNCHANGED <<carritoConTotal, sesiones, llamadas, edit, ediciones,
                   editados, calc, intake, signup, aux>>

\* (mutant: a plain get(), no select_for_update)
PuedeBloquearSinEspera(w, p) == TRUE
\* views.py:242, select_for_update: the row lock is granted when no other
\* transaction holds it
PuedeBloquear(w, p) == lock[p] \in {0, w}

\* views.py:245
StockInsuficiente(disponible, cantidad) == disponible < cantidad

\* views.py:241-261, one iteration of the item loop
V_Item(w) ==
    LET r == req[w]
        it == sesiones[r.sesion].items[r.idx]
        p == it.producto_id
        cantidad == it.cantidad
    IN  /\ r.pc = "items"
        /\ PuedeBloquear(w, p)
        /\ IF StockInsuficiente(stock[p], cantidad)
           THEN Fallar(w, "stock")
           ELSE /\ lock' = [lock EXCEPT ![p] = w]
                /\ req' = [req EXCEPT ![w] =
                     [r EXCEPT
                        !.subtotal = @ + precio[p] * cantidad,
                        !.tomados = Append(@,
                            [producto |-> p, cantidad |-> cantidad,
                             precio_unitario |-> precio[p],
                             stock |-> stock[p] - cantidad]),
                        !.idx = @ + 1,
                        !.pc = IF r.idx = Len(sesiones[r.sesion].items)
                               THEN "materializar" ELSE "items"]]
                /\ UNCHANGED <<db, asocLock, respuestas>>
        /\ UNCHANGED <<carritoConTotal, sesiones, llamadas, edit, ediciones,
                       editados, calc, intake, signup, aux>>

\* The database's deadlock detector: two transactions each waiting for a row
\* lock the other holds; one of them is aborted (OperationalError, caught at
\* views.py:310).
Espera(w) ==
    IF req[w].pc = "items"
    THEN LET p == sesiones[req[w].sesion].items[req[w].idx].producto_id
         IN  IF lock[p] \notin {0, w} THEN lock[p] ELSE 0
    ELSE 0

V_Deadlock(w) ==
    /\ Espera(w) # 0
    /\ Espera(Espera(w)) = w
    /\ Fallar(w, "deadlock")
    /\ UNCHANGED <<carritoConTotal, sesiones, llamadas, edit, ediciones,
                   editados, calc, intake, signup, aux>>

\* (mutant: no reconciliation of the recomputed total)
TotalCoincideSiempre(total_final_seguro, total_pagado) == TRUE
\* views.py:266, both sides quantized to cents
TotalCoincide(total_final_seguro, total_pagado) ==
    Quantize(total_final_seguro, Centavo) = Quantize(total_pagado, Centavo)

\* (mutant: stripe_payment_intent_id without unique=True)
PagoDuplicadoNunca(intent) == FALSE
\* ventas/models.py:103, unique=True on Pago.stripe_payment_intent_id
PagoDuplicado(intent) ==
    \E i \in 1..Len(pagos) : pagos[i].stripe_payment_intent_id = intent

\* (mutant: no unique constraint on the lines of a cart)
DetalleDuplicadoNunca(tomados) == FALSE
\* comercial/models.py:155-156, unique_together (carrito, producto)
DetalleDuplicado(tomados) ==
    \E i, j \in 1..Len(tomados) :
        i < j /\ tomados[i].producto = tomados[j].producto

\* units of 0.00000001 point in one point: a total in units of 0.0001 bs
\* times the 5 of Decimal('0.0005') is a number of points in these units
Punto == Boliviano * Boliviano

\* users/models.py:152, IntegerField: the value of the attribute, in units of
\* 0.00000001 point, is written as int(value), truncated to whole points
IntegerField(valor) == IF valor >= 0 THEN valor \div Punto
                       ELSE -((-valor) \div Punto)

\* views.py:306-307, the customer's points after the accrual, computed from
\* the points read at line 216
puntos_acumulados(leidos, total_pagado) ==
    IntegerField(leidos * Punto + total_pagado * 5)

RECURSIVE BulkUpdate(_, _, _)
\* views.py:304, Producto.objects.bulk_update(..., ['stock']): the staged
\* stock of every product object is written, in list order
BulkUpdate(st, tomados, n) ==
    IF n = 0 THEN st
    ELSE [BulkUpdate(st, tomados, n - 1) EXCEPT
            ![tomados[n].producto] = tomados[n].stock]

\* views.py:263-308 and the commit of the transaction
V_Materializar(w) ==
    LET r == req[w]
        s == r.sesion
        tienda == sesiones[s].tienda
        total_pagado == sesiones[s].amount_total * Centavo
        costo_envio_seguro == calcular_costo_envio(r.subtotal)
        total_final_seguro == r.subtotal + costo_envio_seguro
        carrito == Len(carritos) + 1
        venta == Len(ventas) + 1
    IN  /\ r.pc = "materializar"
        /\ IF ~TotalCoincide(total_final_seguro, total_pagado)
           THEN Fallar(w, "total")
           ELSE IF PagoDuplicado(s)
           THEN Fallar(w, "pago_duplicado")
           ELSE IF DetalleDuplicado(r.tomados)
           THEN Fallar(w, "detalle_duplicado")
           ELSE /\ carritos' = Append(carritos,
                      [tienda |-> tienda, total |-> total_pagado])
                /\ ventas' = Append(ventas,
                      [total |-> total_pagado, estado |-> "PROCESADA",
                       tienda |-> tienda, carrito |-> carrito])
                /\ pagos' = Append(pagos,
                      [venta |-> venta, tienda |-> tienda,
                       stripe_payment_intent_id |-> s,
                       monto_total |-> total_pagado, estado |-> "COMPLETADO"])
                /\ envios' = Append(envios,
                      [venta |-> venta, tienda |-> tienda,
                       estado |-> "EN_PREPARACION"])
                /\ detalles_carrito' = detalles_carrito \o
                      [i \in 1..Len(r.tomados) |->
                         [carrito |-> carrito,
                          producto |-> r.tomados[i].producto,
                          cantidad |-> r.tomados[i].cantidad,
                          precio_unitario |-> r.tomados[i].precio_unitario]]
                /\ detalles_venta' = detalles_venta \o
                      [i \in 1..Len(r.tomados) |->
                         [venta |-> venta,
                          producto |-> r.tomados[i].producto,
                          cantidad |-> r.tomados[i].cantidad,
                          precio_historico |-> r.tomados[i].precio_unitario]]
                /\ stock' = BulkUpdate(stock, r.tomados, Len(r.tomados))
                /\ asociacion' = [asociacion EXCEPT ![tienda] = TRUE]
                /\ puntos' = puntos_acumulados(r.puntos, total_pagado)
                /\ UNCHANGED <<precio, tienda_de, log_precios>>
                /\ Responder(w, "ok")
        /\ UNCHANGED <<carritoConTotal, sesiones, llamadas, edit, ediciones,
                       editados, calc, intake, signup, aux>>

\* ------------------------------------------------------- catalogue edits
\* comercial/views.py perform_update: get_object() loads the Producto row
E_Cargar(p) ==
    /\ edit.pc = "idle"
    /\ ediciones < MaxEdiciones
    /\ edit' = [pc |-> "cargado", producto |-> p, stock |-> stock[p],
                estado |-> estado_prod[p]]
    /\ UNCHANGED <<db, carritoConTotal, lock, asocLock, sesiones, req,
                   respuestas, llamadas, ediciones, editados, calc, intake, signup, aux>>

\* comercial/models.py:85-106, Producto.save: a LogPrecioProducto row is
\* created when the price in the database differs from the one being saved
LogPrecio(p, original, nuevo) ==
    IF original # nuevo
    THEN <<[producto |-> p, precio_anterior |-> original,
            precio_nuevo |-> nuevo]>>
    ELSE <<>>

\* comercial/serializers.py:136-159 and comercial/models.py:85-106: the new
\* price is set on the loaded instance and save() writes every column of the
\* row, the loaded stock included; the UPDATE waits for the row lock.
E_Guardar(nuevo) ==
    /\ edit.pc = "cargado"
    /\ lock[edit.producto] = 0
    /\ log_precios' = log_precios
                        \o LogPrecio(edit.producto, precio[edit.producto], nuevo)
    /\ precio' = [precio EXCEPT ![edit.producto] = nuevo]
    /\ stock' = [stock EXCEPT ![edit.producto] = edit.stock]
    /\ edit' = EditIdle
    /\ ediciones' = ediciones + 1
    /\ editados' = editados \cup {edit.producto}
    /\ UNCHANGED <<tienda_de, asociacion, puntos, carritos, detalles_carrito,
                   ventas, detalles_venta, pagos, envios, carritoConTotal, lock,
                   asocLock, sesiones, req, respuestas, llamadas, calc, intake, signup, aux>>

\* comercial/views.py:359-366, perform_destroy on the instance get_object()
\* loaded: an active product is deactivated and save() writes every column
\* of the row, the loaded stock included; an inactive one is left alone.
D_Guardar ==
    /\ edit.pc = "cargado"
    /\ lock[edit.producto] = 0
    /\ IF edit.estado
       THEN /\ estado_prod' = [estado_prod EXCEPT ![edit.producto] = FALSE]
            /\ stock' = [stock EXCEPT ![edit.producto] = edit.stock]
            /\ editados' = editados \cup {edit.producto}
       ELSE UNCHANGED <<estado_prod, stock, editados>>
    /\ edit' = EditIdle
    /\ ediciones' = ediciones + 1
    /\ UNCHANGED <<precio, log_precios, tienda_de, asociacion, puntos, carritos,
                   detalles_carrito, ventas, detalles_venta, pagos, envios,
                   carritoConTotal, lock, asocLock, sesiones, req, respuestas,
                   llamadas, calc, intake, signup, sin_baja>>

Next ==
    \/ \E tienda_id \in Tiendas, items \in ListasDeItems, acepta \in BOOLEAN :
            CrearSesion(tienda_id, items, acepta)
    \/ \E s \in Sesiones : PagarSesion(s)
    \/ \E w \in Workers, s \in Sesiones : V_Inicio(w, s)
    \/ \E w \in Workers : V_Abrir(w)
    \/ \E w \in Workers : V_Item(w)
    \/ \E w \in Workers : V_Deadlock(w)
    \/ \E w \in Workers : V_Materializar(w)
    \/ \E p \in Productos : E_Cargar(p)
    \/ \E nuevo \in Precios : E_Guardar(nuevo)

Spec == Init /\ [][Next]_vars

\* ------------------------------------------------------- confirmar_pedido
\* comercial/views.py:590-720 as one step: the transaction takes the row lock
\* of each product it reaches (it waits while a confirmation holds one) and
\* commits or rolls back as a whole.
ConfirmarPedido(tienda_id, items) ==
    LET n == Len(items)
        invalida == [i \in 1..n |-> items[i].cantidad <= 0]
        noEsta == [i \in 1..n |->
                     ~ProductoDeTienda(tienda_id, items[i].producto_id)]
        sinStock == [i \in 1..n |->
                       stock[items[i].producto_id] < items[i].cantidad]
        k == PrimerIndice([i \in 1..n |->
                             invalida[i] \/ noEsta[i] \/ sinStock[i]], n)
        bloquea(i) == \/ k = 0
                      \/ i < k
                      \/ i = k /\ ~invalida[k] /\ ~noEsta[k]
        tomados == [i \in 1..n |->
                      [producto |-> items[i].producto_id,
                       cantidad |-> items[i].cantidad,
                       precio_unitario |-> precio[items[i].producto_id],
                       stock |-> stock[items[i].producto_id]
                                    - items[i].cantidad]]
        carrito == Len(carritos) + 1
        status == IF tienda_id = 0 \/ items = <<>> THEN "400"
                  ELSE IF tienda_id \notin Tiendas THEN "404"
                  ELSE IF ~carritoConTotal THEN "500"
                  ELSE IF k # 0 THEN "400"
                  ELSE IF DetalleDuplicado(tomados) THEN "500"
                  ELSE "201"
    IN  /\ pedidos < MaxPedidos
        /\ (tienda_id \in Tiendas /\ carritoConTotal) =>
              \A i \in 1..n : bloquea(i) => lock[items[i].producto_id] = 0
        /\ IF status = "201"
           THEN /\ carritos' = Append(carritos,
                      [tienda |-> tienda_id, total |-> Subtotal(items, precio)])
                /\ detalles_carrito' = detalles_carrito \o
                      [i \in 1..n |->
                         [carrito |-> carrito,
                          producto |-> tomados[i].producto,
                          cantidad |-> tomados[i].cantidad,
                          precio_unitario |-> tomados[i].precio_unitario]]
                /\ stock' = BulkUpdate(stock, tomados, n)
                /\ pedidos' = pedidos + 1
                /\ UNCHANGED <<precio, tienda_de, log_precios, asociacion,
                               puntos, ventas, detalles_venta, pagos, envios>>
           ELSE UNCHANGED <<db, pedidos>>
        /\ Registrar("confirmar_pedido", tienda_id, items, status)
        /\ UNCHANGED <<ctl, calc, signup, aux>>

\* the bodies sent to the two order endpoints: well-formed orders and orders
\* with no items, a zero or a negative quantity
ItemsPedido ==
    {<<>>, <<Item(1, 1)>>, <<Item(1, 0)>>, <<Item(1, -1)>>,
     <<Item(1, 1), Item(2, 1)>>, <<Item(1, 1), Item(2, 0)>>,
     <<Item(2, 1), Item(1, -1)>>, <<Item(1, 1), Item(1, 1)>>}
\* tienda_id: missing (0), a store, the id of no store (3)
TiendasPedido == {0, 1, 3}

InitPedido ==
    /\ carritoConTotal \in BOOLEAN
    /\ stock = [p \in Productos |-> StockInicial]
    /\ precio = PrecioInicial
    /\ tienda_de = [p \in Productos |-> 1]
    /\ lock = [p \in Productos |-> 0]
    /\ asociacion = [t \in Tiendas |-> TRUE]
    /\ asocLock = [t \in Tiendas |-> 0]
    /\ puntos = 0
    /\ log_precios = <<>>
    /\ carritos = <<>> /\ detalles_carrito = <<>> /\ ventas = <<>>
    /\ detalles_venta = <<>> /\ pagos = <<>> /\ envios = <<>>
    /\ sesiones = <<>>
    /\ req = [w \in Workers |-> ReqIdle]
    /\ respuestas = [s \in Sesiones |-> <<>>]
    /\ llamadas = 0
    /\ edit = EditIdle
    /\ ediciones = 0
    /\ editados = {}
    /\ subtotal_in = 0 /\ costo_out = 0
    /\ http = SinRespuesta /\ pedidos = 0
    /\ SinRegistros
    /\ SinAux

NextPedido ==
    \/ \E tienda_id \in TiendasPedido, items \in ItemsPedido,
          acepta \in BOOLEAN : CrearSesion(tienda_id, items, acepta)
    \/ \E tienda_id \in TiendasPedido, items \in ItemsPedido :
          ConfirmarPedido(tienda_id, items)
    \/ \E s \in Sesiones : PagarSesion(s)
    \/ \E w \in Workers, s \in Sesiones : V_Inicio(w, s)
    \/ \E w \in Workers : V_Abrir(w)
    \/ \E w \in Workers : V_Item(w)
    \/ \E w \in Workers : V_Deadlock(w)
    \/ \E w \in Workers : V_Materializar(w)

SpecPedido == InitPedido /\ [][NextPedido]_vars

\* ------------------------------------------------- soft-deleted products
NextBaja ==
    \/ \E items \in ListasDeItems, acepta \in BOOLEAN :
          CrearSesion(1, items, acepta)
    \/ \E s \in Sesiones : PagarSesion(s)
    \/ \E w \in Workers, s \in Sesiones : V_Inicio(w, s)
    \/ \E w \in Workers : V_Abrir(w)
    \/ \E w \in Workers : V_Item(w)
    \/ \E w \in Workers : V_Deadlock(w)
    \/ \E w \in Workers : V_Materializar(w)
    \/ \E p \in Productos : E_Cargar(p)
    \/ D_Guardar

SpecBaja == InitPedido /\ [][NextBaja]_vars

\* ------------------------------------------------- loyalty of large orders
\* a price whose orders ship free (views.py:28-45) and earn whole points
\* (views.py:306): 2000.00 bs is 1 point
PrecioPuntos == 2000 * Boliviano

InitPuntos ==
    /\ carritoConTotal = TRUE
    /\ stock = [p \in Productos |-> StockInicial]
    /\ precio = [p \in Productos |-> PrecioPuntos]
    /\ tienda_de = [p \in Productos |-> 1]
    /\ lock = [p \in Productos |-> 0]
    /\ \E b \in BOOLEAN : asociacion = [t \in Tiendas |-> b]
    /\ asocLock = [t \in Tiendas |-> 0]
    /\ puntos = 0
    /\ log_precios = <<>>
    /\ carritos = <<>> /\ detalles_carrito = <<>> /\ ventas = <<>>
    /\ detalles_venta = <<>> /\ pagos = <<>> /\ envios = <<>>
    /\ sesiones = <<>>
    /\ req = [w \in Workers |-> ReqIdle]
    /\ respuestas = [s \in Sesiones |-> <<>>]
    /\ llamadas = 0
    /\ edit = EditIdle
    /\ ediciones = 0
    /\ editados = {}
    /\ subtotal_in = 0 /\ costo_out = 0
    /\ http = SinRespuesta /\ pedidos = 0
    /\ SinRegistros
    /\ SinAux

NextPuntos ==
    \/ \E items \in ListasDeItems, acepta \in BOOLEAN :
          CrearSesion(1, items, acepta)
    \/ \E s \in Sesiones : PagarSesion(s)
    \/ \E w \in Workers, s \in Sesiones : V_Inicio(w, s)
    \/ \E w \in Workers : V_Abrir(w)
    \/ \E w \in Workers : V_Item(w)
    \/ \E w \in Workers : V_Deadlock(w)
    \/ \E w \in Workers : V_Materializar(w)

SpecPuntos == InitPuntos /\ [][NextPuntos]_vars

\* ------------------------------------------------ confirmar_registro_pago
\* The customer pays the sign-up on the provider's page; a session of
\* mode subscription then carries an invoice.
PagarSuscripcion(invoice) ==
    /\ suscripcion.payment_status = "unpaid"
    /\ suscripcion' = [payment_status |-> "paid", invoice |-> invoice]
    /\ UNCHANGED <<db, ctl, calc, intake, aux, registro, cuentas, resp_registro,
                   registros>>

\* a confirmar_registro_pago ends: its response is recorded
ResponderRegistro(w, tipo) ==
    /\ resp_registro' = Append(resp_registro,
            [tipo |-> tipo, consultas |-> registro[w].consultas,
             primero |-> registro[w].primero])
    /\ registro' = [registro EXCEPT ![w] = RegIdle]

\* saas/views.py:326-332: the first Session.retrieve; a session that is not
\* paid sends the request to the sleep of line 333.  ok = FALSE is a
\* retrieval that raises (answered 500 at 389-391).
R_Inicio(w, ok) ==
    /\ registro[w].pc = "idle"
    /\ registros < MaxRegistros
    /\ registros' = registros + 1
    /\ IF ok
       THEN /\ registro' = [registro EXCEPT ![w] =
                  [pc |-> IF suscripcion.payment_status # "paid"
                          THEN "reintento" ELSE "evaluar",
                   consultas |-> 1,
                   primero |-> suscripcion.payment_status,
                   payment_status |-> suscripcion.payment_status,
                   invoice |-> suscripcion.invoice]]
            /\ UNCHANGED resp_registro
       ELSE /\ resp_registro' = Append(resp_registro,
                  [tipo |-> "error", consultas |-> 1, primero |-> ""])
            /\ UNCHANGED registro
    /\ UNCHANGED <<db, ctl, calc, intake, aux, suscripcion, cuentas>>

\* (mutant: the sleep and retrieve in a loop that runs once more while the
\* session is still not paid after the second retrieval)
SiguienteConOtroReintento(payment_status, consultas) ==
    IF payment_status # "paid" /\ consultas < 3 THEN "reintento"
    ELSE "evaluar"
\* saas/views.py:332-336: after the retry the request goes on to the check of
\* line 336 whatever the second retrieval returned
SiguienteTrasReintento(payment_status, consultas) == "evaluar"

\* saas/views.py:333-334: time.sleep(3) and the second Session.retrieve
R_Reintento(w, ok) ==
    /\ registro[w].pc = "reintento"
    /\ IF ok
       THEN /\ registro' = [registro EXCEPT ![w] =
                  [@ EXCEPT
                     !.pc = SiguienteTrasReintento(suscripcion.payment_status,
                                                   registro[w].consultas + 1),
                     !.consultas = @ + 1,
                     !.payment_status = suscripcion.payment_status,
                     !.invoice = suscripcion.invoice]]
            /\ UNCHANGED resp_registro
       ELSE /\ resp_registro' = Append(resp_registro,
                  [tipo |-> "error",
                   consultas |-> registro[w].consultas + 1,
                   primero |-> registro[w].primero])
            /\ registro' = [registro EXCEPT ![w] = RegIdle]
    /\ UNCHANGED <<db, ctl, calc, intake, aux, suscripcion, cuentas, registros>>

\* saas/views.py:336-337: not (paid and invoice) is answered 400
R_Evaluar(w) ==
    /\ registro[w].pc = "evaluar"
    /\ IF registro[w].payment_status = "paid" /\ registro[w].invoice
       THEN /\ registro' = [registro EXCEPT ![w].pc = "transaccion"]
            /\ UNCHANGED resp_registro
       ELSE ResponderRegistro(w, "no_confirmado")
    /\ UNCHANGED <<db, ctl, calc, intake, aux, suscripcion, cuentas, registros>>

\* users/models.py:68, email unique: the INSERT of get_or_create waits while
\* another transaction holds an uncommitted User row of the same e-mail
PuedeInsertar(w) == \A o \in Workers \ {w} : registro[o].pc # "crear"

\* saas/views.py:340-351: inside transaction.atomic, User.objects.
\* get_or_create by e-mail.  An existing user (found at once, or after the
\* IntegrityError of a row committed meanwhile) is answered with its login;
\* otherwise the new User row is held uncommitted.
R_Usuario(w) ==
    /\ registro[w].pc = "transaccion"
    /\ PuedeInsertar(w)
    /\ IF cuentas.usuarios > 0
       THEN ResponderRegistro(w, "ya_registrado")
       ELSE /\ registro' = [registro EXCEPT ![w].pc = "crear"]
            /\ UNCHANGED resp_registro
    /\ UNCHANGED <<db, ctl, calc, intake, aux, suscripcion, cuentas, registros>>

\* saas/models.py:32-84 declares Tienda without slug, rubro and
\* descripcion_corta and users/models.py:166-169 Administrador without
\* tienda, while User.save (users/models.py:89-94) refuses an admin without
\* User.tienda: against the models as declared Tienda.objects.create of the
\* sign-up views raises TypeError.  The views can commit a store only
\* against the models they were written for, those of the deployment whose
\* Carrito accepts total.
ModelosDeLasVistas == carritoConTotal

\* saas/views.py:353-391: profile, Tienda, Administrador and PagoSuscripcion
\* of the new user, and the commit.  stripe_payment_intent_id is unique
\* (saas/models.py:118), a second PagoSuscripcion of the invoice raises
\* IntegrityError.  An exception rolls the transaction back and is answered
\* 500 (389-391).
R_Crear(w) ==
    /\ registro[w].pc = "crear"
    /\ IF ModelosDeLasVistas /\ cuentas.pagos_suscripcion = 0
       THEN /\ cuentas' = [usuarios |-> cuentas.usuarios + 1,
                           tiendas |-> cuentas.tiendas + 1,
                           administradores |-> cuentas.administradores + 1,
                           pagos_suscripcion |->
                               cuentas.pagos_suscripcion + 1]
            /\ ResponderRegistro(w, "registrado")
       ELSE /\ ResponderRegistro(w, "error_transaccion")
            /\ UNCHANGED cuentas
    /\ UNCHANGED <<db, ctl, calc, intake, aux, suscripcion, registros>>

\* the order of the store checkout in the specification of the retrievals
ItemsConsulta == {<<Item(1, 1)>>}

NextConsulta ==
    \/ \E items \in ItemsConsulta, acepta \in BOOLEAN :
          CrearSesion(1, items, acepta)
    \/ \E s \in Sesiones : PagarSesion(s)
    \/ \E w \in Workers, s \in Sesiones : V_Inicio(w, s)
    \/ \E w \in Workers : V_Abrir(w)
    \/ \E w \in Workers : V_Item(w)
    \/ \E w \in Workers : V_Materializar(w)
    \/ \E invoice \in BOOLEAN : PagarSuscripcion(invoice)
    \/ \E w \in Workers, ok \in BOOLEAN : R_Inicio(w, ok)
    \/ \E w \in Workers, ok \in BOOLEAN : R_Reintento(w, ok)
    \/ \E w \in Workers : R_Evaluar(w)
    \/ \E w \in Workers : R_Usuario(w)
    \/ \E w \in Workers : R_Crear(w)

\* A request that has started is run to its end by its server thread: each
\* step of a handler is taken once it can be (a row lock is granted, the
\* sleep of saas/views.py:333 ends).
FairConsulta ==
    \A w \in Workers :
        /\ WF_vars(V_Abrir(w))
        /\ WF_vars(V_Item(w))
        /\ WF_vars(V_Materializar(w))
        /\ WF_vars(\E ok \in BOOLEAN : R_Reintento(w, ok))
        /\ WF_vars(R_Evaluar(w))
        /\ WF_vars(R_Usuario(w))
        /\ WF_vars(R_Crear(w))

SpecConsulta == InitPedido /\ [][NextConsulta]_vars /\ FairConsulta

\* the sign-up confirmation alone
NextRegistro ==
    \/ \E invoice \in BOOLEAN : PagarSuscripcion(invoice)
    \/ \E w \in Workers, ok \in BOOLEAN : R_Inicio(w, ok)
    \/ \E w \in Workers, ok \in BOOLEAN : R_Reintento(w, ok)
    \/ \E w \in Workers : R_Evaluar(w)
    \/ \E w \in Workers : R_Usuario(w)
    \/ \E w \in Workers : R_Crear(w)

SpecRegistro == InitPedido /\ [][NextRegistro]_vars

\* --------------------------------------------- the salesperson's counter
\* ventas/models.py:151-180, the post_save receiver: the value of
\* ventas_realizadas after it ran.  fila is the Venta row the query of line
\* 173 reads; post_save runs after the row was written.
actualizar_conteo_ventas_vendedor(fila, instance, created, contador) ==
    IF ~instance.vendedor THEN contador
    ELSE LET sumado == IF created THEN contador + 1 ELSE contador
         IN  IF /\ instance.estado = "CANCELADA"
                /\ fila.estado # "CANCELADA"
                /\ sumado > 0
             THEN sumado - 1
             ELSE sumado

\* Venta.save(): the row is inserted (the first save of the id) or updated
\* with the instance's estado, then post_save calls the receiver.
GuardarVenta(v, estado, vendedor) ==
    LET created == ~venta_vend[v].existe
        instance == [existe |-> TRUE, estado |-> estado,
                     vendedor |-> IF created THEN vendedor
                                  ELSE venta_vend[v].vendedor]
        guardada == [venta_vend EXCEPT ![v] = instance]
    IN  /\ guardados < MaxGuardados
        /\ guardados' = guardados + 1
        /\ venta_vend' = guardada
        /\ ventas_realizadas' =
              actualizar_conteo_ventas_vendedor(guardada[v], instance,
                                                created, ventas_realizadas)
        /\ UNCHANGED sin_vend

\* everything of the checkout, the order intake and the sign-up at rest
Reposo ==
    /\ carritoConTotal = TRUE
    /\ stock = [p \in Productos |-> StockInicial]
    /\ precio = PrecioInicial
    /\ tienda_de = [p \in Productos |-> 1]
    /\ lock = [p \in Productos |-> 0]
    /\ asociacion = [t \in Tiendas |-> FALSE]
    /\ asocLock = [t \in Tiendas |-> 0]
    /\ puntos = 0
    /\ log_precios = <<>>
    /\ carritos = <<>> /\ detalles_carrito = <<>> /\ ventas = <<>>
    /\ detalles_venta = <<>> /\ pagos = <<>> /\ envios = <<>>
    /\ sesiones = <<>>
    /\ req = [w \in Workers |-> ReqIdle]
    /\ respuestas = [s \in Sesiones |-> <<>>]
    /\ llamadas = 0
    /\ edit = EditIdle
    /\ ediciones = 0
    /\ editados = {}
    /\ subtotal_in = 0 /\ costo_out = 0
    /\ http = SinRespuesta /\ pedidos = 0
    /\ SinRegistros

InitVendedor ==
    /\ Reposo
    /\ SinVentasVendedor
    /\ bitacoraConTienda = FALSE
    /\ SinPeticiones
    /\ TokenNuevo
    /\ SinPermiso
    /\ TodosActivos

NextVendedor ==
    \E v \in VentasVendedor, estado \in EstadosVenta, vendedor \in BOOLEAN :
        GuardarVenta(v, estado, vendedor)

SpecVendedor == InitVendedor /\ [][NextVendedor]_vars

\* ------------------------------------------------------- the audit log
\* auditoria/utils.py:31-55.  The outcomes of Bitacora.objects.create():
\* with the model as declared (auditoria/models.py:5-38 has no tienda
\* field) Model.__init__ raises TypeError before any query; with the column
\* the call assumes, the INSERT succeeds or the database refuses it.
ResultadosLog ==
    IF bitacoraConTienda THEN {"ok", "falla"} ELSE {"TypeError"}

\* Model.save_base runs the INSERT under mark_for_rollback_on_error: a
\* database error inside an atomic block marks the transaction for rollback
\* although the except clause of line 52 swallows the exception.
MarcaRollback(resultado, en_atomic) == en_atomic /\ resultado = "falla"

\* the answer of a finished request, recorded with its input and path
ResponderPrueba(w, camino, status, escrito) ==
    /\ hist_p' = hist_p \cup {[email |-> pet[w].email, camino |-> camino,
                                status |-> status, log |-> pet[w].log,
                                escrito |-> escrito]}
    /\ pet' = [pet EXCEPT ![w] = PetIdle]

\* saas/views.py:213-218: serializer check and the e-mail lookup
P_Inicio(w, email, valido) ==
    /\ pet[w].pc = "idle"
    /\ peticiones < MaxPeticiones
    /\ peticiones' = peticiones + 1
    /\ IF ~valido \/ email \in usuarios_p
       THEN /\ hist_p' = hist_p \cup {[email |-> email, camino |-> "rechazado",
                                        status |-> "400", log |-> "",
                                        escrito |-> FALSE]}
            /\ UNCHANGED pet
       ELSE /\ pet' = [pet EXCEPT ![w] = [PetIdle EXCEPT !.pc = "atomic",
                                                         !.email = email]]
            /\ UNCHANGED hist_p
    /\ UNCHANGED <<bitacoraConTienda, usuarios_p, bitacora_p, sin_prueba>>

\* saas/views.py:219-248: inside transaction.atomic, the plan check and the
\* rows of the new store.  create_user waits for an uncommitted row with
\* the same e-mail and raises IntegrityError when it is committed.  Against
\* the models as declared Tienda.objects.create(slug=...) raises TypeError
\* (saas/models.py:32-84 has no slug), answered 500 at 280-282.
P_Crear(w, prueba_ok) ==
    /\ pet[w].pc = "atomic"
    /\ ~\E o \in Workers \ {w} :
            pet[o].pendiente /\ pet[o].email = pet[w].email
    /\ IF ~prueba_ok
       THEN /\ ResponderPrueba(w, "plan", "400", FALSE)
       ELSE IF ~bitacoraConTienda /\ pet[w].email \notin usuarios_p
       THEN /\ ResponderPrueba(w, "nuevo", "500", FALSE)
       ELSE /\ pet' = [pet EXCEPT ![w].pc =
                          IF pet[w].email \in usuarios_p
                          THEN "duplicado" ELSE "log",
                        ![w].pendiente = pet[w].email \notin usuarios_p]
            /\ UNCHANGED hist_p
    /\ UNCHANGED <<bitacoraConTienda, usuarios_p, bitacora_p, peticiones,
                   sin_prueba>>

\* saas/views.py:250-255: log_action inside the atomic block
P_Log(w, resultado) ==
    /\ pet[w].pc = "log"
    /\ resultado \in ResultadosLog
    /\ pet' = [pet EXCEPT ![w].pc = "salir",
                          ![w].log = resultado,
                          ![w].fila_bitacora = (resultado = "ok"),
                          ![w].needs_rollback =
                              MarcaRollback(resultado, TRUE)]
    /\ UNCHANGED <<bitacoraConTienda, usuarios_p, bitacora_p, hist_p,
                   peticiones, sin_prueba>>

\* saas/views.py:257-261: the return leaves the atomic block, which commits
\* unless the transaction is marked for rollback, and answers 201.
P_Salir(w) ==
    LET commit == ~pet[w].needs_rollback
    IN  /\ pet[w].pc = "salir"
        /\ usuarios_p' = IF commit THEN usuarios_p \cup {pet[w].email}
                         ELSE usuarios_p
        /\ bitacora_p' = IF commit /\ pet[w].fila_bitacora
                         THEN bitacora_p + 1 ELSE bitacora_p
        /\ ResponderPrueba(w, "nuevo", "201", commit)
        /\ UNCHANGED <<bitacoraConTienda, peticiones, sin_prueba>>

\* saas/views.py:263-278: the IntegrityError of a duplicate e-mail rolled
\* the block back; the existing user is logged outside any transaction
\* and the answer is 200.
P_Duplicado(w, resultado) ==
    /\ pet[w].pc = "duplicado"
    /\ resultado \in ResultadosLog
    /\ bitacora_p' = IF resultado = "ok" THEN bitacora_p + 1 ELSE bitacora_p
    /\ hist_p' = hist_p \cup {[email |-> pet[w].email, camino |-> "duplicado",
                                status |-> "200", log |-> resultado,
                                escrito |-> FALSE]}
    /\ pet' = [pet EXCEPT ![w] = PetIdle]
    /\ UNCHANGED <<bitacoraConTienda, usuarios_p, peticiones, sin_prueba>>

InitBitacora ==
    /\ Reposo
    /\ SinVentasVendedor
    /\ bitacoraConTienda \in BOOLEAN
    /\ SinPeticiones
    /\ TokenNuevo
    /\ SinPermiso
    /\ TodosActivos

NextBitacora ==
    \/ \E w \in Workers, email \in Correos, valido \in BOOLEAN :
          P_Inicio(w, email, valido)
    \/ \E w \in Workers, prueba_ok \in BOOLEAN : P_Crear(w, prueba_ok)
    \/ \E w \in Workers, resultado \in {"ok", "falla", "TypeError"} :
          P_Log(w, resultado)
    \/ \E w \in Workers : P_Salir(w)
    \/ \E w \in Workers, resultado \in {"ok", "falla", "TypeError"} :
          P_Duplicado(w, resultado)

SpecBitacora == InitBitacora /\ [][NextBitacora]_vars

\* ------------------------------------------------- the expiring token
\* users/authentication.py:21, timedelta(minutes=15)
Ventana == 15
\* the steps by which the clock advances, in minutes
Avances == {1, Ventana}

\* users/authentication.py:21
Expirado(t, created) == t - created > Ventana

Usar(w, acepta) ==
    /\ usos' = usos \cup {[n |-> Cardinality(usos) + 1, t |-> aut[w].t,
                            acepta |-> acepta]}
    /\ aut' = [aut EXCEPT ![w] = AutIdle]

Reloj(d) ==
    /\ ahora + d <= MaxTiempo
    /\ ahora' = ahora + d
    /\ UNCHANGED <<token, aut, usos, sin_tok>>

\* users/authentication.py:14-17: TokenAuthentication looks the key up (the
\* user of the token is active); an unknown key is rejected.
A_Buscar(w) ==
    /\ aut[w].pc = "idle"
    /\ Cardinality(usos)
         + Cardinality({o \in Workers : aut[o].pc # "idle"}) < MaxUsos
    /\ IF token.existe
       THEN /\ aut' = [aut EXCEPT ![w] = [pc |-> "comprobar",
                                          created |-> token.created,
                                          t |-> ahora]]
            /\ UNCHANGED usos
       ELSE /\ usos' = usos \cup {[n |-> Cardinality(usos) + 1, t |-> ahora,
                                    acepta |-> FALSE]}
            /\ UNCHANGED aut
    /\ UNCHANGED <<ahora, token, sin_tok>>

\* users/authentication.py:21: the expiry test on the token that was read
A_Comprobar(w) ==
    /\ aut[w].pc = "comprobar"
    /\ aut' = [aut EXCEPT ![w].t = ahora,
                          ![w].pc = IF Expirado(ahora, aut[w].created)
                                    THEN "borrar" ELSE "guardar"]
    /\ UNCHANGED <<ahora, token, usos, sin_tok>>

\* users/authentication.py:23-24: token.delete() and the rejection
A_Borrar(w) ==
    /\ aut[w].pc = "borrar"
    /\ token' = [token EXCEPT !.existe = FALSE]
    /\ Usar(w, FALSE)
    /\ UNCHANGED <<ahora, sin_tok>>

\* users/authentication.py:28-31: token.save() with created = now.
\* Model.save() updates the row and inserts it when no row was updated.
A_Guardar(w) ==
    /\ aut[w].pc = "guardar"
    /\ token' = [existe |-> TRUE, created |-> ahora]
    /\ Usar(w, TRUE)
    /\ UNCHANGED <<ahora, sin_tok>>

InitToken ==
    /\ Reposo
    /\ SinVentasVendedor
    /\ bitacoraConTienda = FALSE
    /\ SinPeticiones
    /\ TokenNuevo
    /\ SinPermiso
    /\ TodosActivos

NextToken ==
    \/ \E d \in Avances : Reloj(d)
    \/ \E w \in Workers : A_Buscar(w)
    \/ \E w \in Workers : A_Comprobar(w)
    \/ \E w \in Workers : A_Borrar(w)
    \/ \E w \in Workers : A_Guardar(w)

SpecToken == InitToken /\ [][NextToken]_vars

\* ------------------------------------------------- the tenant permission
\* users/models.py:13-18, Rol.OPCIONES_NOMBRE; "" is a user without rol
Roles == {"", "superAdmin", "admin", "cliente", "vendedor"}
\* users/utils.py:9-13: the profile that gives the user its store
Perfiles == {"", "admin_profile", "vendedor_profile"}
\* saas/models.py:33-38
ESTADOS_SUSCRIPCION == {"ACTIVO", "INACTIVO", "CANCELADO", "PRUEBA"}

\* users/utils.py:1-13: the estado of the user's store, "" without store
get_user_tienda(user) ==
    IF ~user.autenticado THEN ""
    ELSE IF user.perfil = "" THEN "" ELSE user.estado_tienda

\* saas/permissions.py:17-61
has_permission(user) ==
    IF ~user.autenticado THEN FALSE
    ELSE IF user.rol = "superAdmin" THEN TRUE
    ELSE IF user.rol = "Cliente" THEN TRUE
    ELSE IF user.rol \in {"admin", "vendedor"}
         THEN LET tienda == get_user_tienda(user)
              IN  IF tienda = "" THEN FALSE
                  ELSE tienda \in {"ACTIVO", "PRUEBA"}
    ELSE FALSE

Permitir ==
    /\ permiso = ""
    /\ permiso' = IF has_permission(usuario) THEN "concedido" ELSE "denegado"
    /\ UNCHANGED <<usuario, sin_perm>>

InitPermiso ==
    /\ Reposo
    /\ SinVentasVendedor
    /\ bitacoraConTienda = FALSE
    /\ SinPeticiones
    /\ TokenNuevo
    /\ usuario \in [autenticado : BOOLEAN, rol : Roles, perfil : Perfiles,
                     estado_tienda : ESTADOS_SUSCRIPCION]
    /\ permiso = ""
    /\ TodosActivos

NextPermiso == Permitir

SpecPermiso == InitPermiso /\ [][NextPermiso]_vars

\* ------------------------------------------------ the pricing calculator
\* calcular_costo_envio applied to every subtotal of whole cents up to the
\* bound
InitEnvio ==
    /\ carritoConTotal = TRUE
    /\ stock = [p \in Productos |-> StockInicial]
    /\ precio = PrecioInicial
    /\ tienda_de = [p \in Productos |-> 1]
    /\ lock = [p \in Productos |-> 0]
    /\ asociacion = [t \in Tiendas |-> FALSE]
    /\ asocLock = [t \in Tiendas |-> 0]
    /\ puntos = 0
    /\ log_precios = <<>>
    /\ carritos = <<>> /\ detalles_carrito = <<>> /\ ventas = <<>>
    /\ detalles_venta = <<>> /\ pagos = <<>> /\ envios = <<>>
    /\ sesiones = <<>>
    /\ req = [w \in Workers |-> ReqIdle]
    /\ respuestas = [s \in Sesiones |-> <<>>]
    /\ llamadas = 0
    /\ edit = EditIdle
    /\ ediciones = 0
    /\ editados = {}
    /\ subtotal_in \in {c * Centavo : c \in 0..MaxSubtotalCentavos}
    /\ costo_out = -1
    /\ http = SinRespuesta /\ pedidos = 0
    /\ SinRegistros
    /\ SinAux

Calcular ==
    /\ costo_out = -1
    /\ costo_out' = calcular_costo_envio(subtotal_in)
    /\ UNCHANGED <<db, ctl, subtotal_in, intake, signup, aux>>

NextEnvio == Calcular

SpecEnvio == InitEnvio /\ [][NextEnvio]_vars


\* ------------------------------------------------------------- properties
IdsSesion == 1..Len(sesiones)

\* number of responses of kind tipo returned for session s
Respuestas(s, tipo) ==
    Cardinality({i \in 1..Len(respuestas[s]) : respuestas[s][i].tipo = tipo})

\* units of product p sold by the confirmations that answered success
VendidoConfirmado(p) ==
    Suma([s \in IdsSesion |->
            Respuestas(s, "ok") * CantidadDe(sesiones[s].items, p)],
         Len(sesiones))

\* the Pago rows that carry the payment reference of session s
PagosDe(s) == {i \in 1..Len(pagos) : pagos[i].stripe_payment_intent_id = s}
VentasDe(s) == {pagos[i].venta : i \in PagosDe(s)}
EnviosDe(s) == {i \in 1..Len(envios) : envios[i].venta \in VentasDe(s)}

\* units of product p in the line items of the Sales of settled sessions
VendidoLiquidado(p) ==
    Suma([s \in IdsSesion |->
            IF PagosDe(s) # {} THEN CantidadDe(sesiones[s].items, p) ELSE 0],
         Len(sesiones))

\* C1: stock conservation. The stock of a product is never negative and, as
\* long as no catalogue edit has written its row, equals the initial stock
\* minus the quantities of the confirmations that succeeded, in every
\* reachable state of every interleaving of the confirmations.
C1_StockConservado ==
    \A p \in Productos :
        /\ stock[p] >= 0
        /\ p \notin editados => stock[p] = StockInicial - VendidoConfirmado(p)

\* C1 witness: two confirmations of different sessions that overlapped in
\* time both succeeded on product 1 and its stock went down by both.
C1_Witness ==
    /\ Len(sesiones) = 2
    /\ \A s \in {1, 2} :
         /\ CantidadDe(sesiones[s].items, 1) = 1
         /\ Len(respuestas[s]) = 1
         /\ respuestas[s][1].tipo = "ok" /\ respuestas[s][1].conc
    /\ editados = {}
    /\ stock[1] = StockInicial - 2

\* C2: of two simultaneous confirmations of different paid sessions, each
\* for quantity Q of the same product with Q <= stock < 2Q and nothing else
\* touching the product, exactly one succeeds and the other fails with
\* insufficient stock.
C2_ExactamenteUnaConfirma ==
    \A p \in Productos, q \in 1..MaxCantidad :
        ( /\ Len(sesiones) = 2
          /\ q <= StockInicial /\ StockInicial < 2 * q
          /\ ediciones = 0 /\ edit.pc = "idle"
          /\ \A s \in {1, 2} :
               /\ sesiones[s].items = <<Item(p, q)>>
               /\ Len(respuestas[s]) = 1
               /\ respuestas[s][1].conc )
        => {respuestas[1][1].tipo, respuestas[2][1].tipo} = {"ok", "stock"}

\* The same statement for a deployment whose Carrito accepts total.
C2_ConCarritoTotal == carritoConTotal => C2_ExactamenteUnaConfirma

\* C3: repeated confirmation is safe. No payment reference ever has more
\* than one Pago; a session one of whose confirmations succeeded has, however
\* many confirmations followed, exactly one Venta, one Pago and one Envio;
\* and (no catalogue edit having written the rows) every product's stock is
\* down by the quantities of the settled sessions, once each.
C3_ConfirmacionRepetida ==
    /\ \A s \in IdsSesion :
         /\ Cardinality(PagosDe(s)) <= 1
         /\ Respuestas(s, "ok") >= 1 =>
              /\ Cardinality(PagosDe(s)) = 1
              /\ Cardinality(VentasDe(s)) = 1
              /\ Cardinality(EnviosDe(s)) = 1
    /\ editados = {} =>
         \A p \in Productos : stock[p] = StockInicial - VendidoLiquidado(p)

\* C3 witness: a session confirmed twice, one call after the other, the
\* first successfully, with stock left for a second decrement.
C3_Witness ==
    \E s \in IdsSesion :
        /\ Len(respuestas[s]) = 2
        /\ respuestas[s][1].tipo = "ok"
        /\ ~respuestas[s][1].conc /\ ~respuestas[s][2].conc
        /\ respuestas[s][2].tipo = "pago_duplicado"
        /\ Cardinality(VentasDe(s)) = 1

\* C4: a confirmation of a session that follows a successful confirmation of
\* the same session is answered as a success too.
C4_SegundaLlamadaExitosa ==
    \A s \in IdsSesion :
        \A i, j \in 1..Len(respuestas[s]) :
            (i < j /\ respuestas[s][i].tipo = "ok")
                => respuestas[s][j].tipo = "ok"

\* C5: concurrent duplicate confirmation. In every state, also while two
\* requests for the same session are in progress, at most one confirmation
\* of a session has committed, and the session has as many Pago, Venta and
\* Envio rows as confirmations that committed; every Venta has its own
\* Carrito, Pago and Envio.
C5_DuplicadoConcurrente ==
    /\ \A s \in IdsSesion :
         /\ Respuestas(s, "ok") <= 1
         /\ Cardinality(PagosDe(s)) = Respuestas(s, "ok")
         /\ Cardinality(VentasDe(s)) = Respuestas(s, "ok")
         /\ Cardinality(EnviosDe(s)) = Respuestas(s, "ok")
    /\ Len(ventas) = Len(pagos) /\ Len(ventas) = Len(envios)
    /\ Len(ventas) = Len(carritos)

\* C5 witness: two confirmations of one session ran at the same time; one
\* committed and the other was stopped by the unique payment reference.
C5_Witness ==
    \E s \in IdsSesion :
        /\ Len(respuestas[s]) = 2
        /\ \A i \in {1, 2} : respuestas[s][i].conc
        /\ {respuestas[s][1].tipo, respuestas[s][2].tipo}
              = {"ok", "pago_duplicado"}
        /\ Cardinality(PagosDe(s)) = 1

\* a confirmation is answered with kind tipo in this step
Responde(tipo) ==
    \E s \in Sesiones :
        /\ Len(respuestas'[s]) = Len(respuestas[s]) + 1
        /\ respuestas'[s][Len(respuestas'[s])].tipo = tipo

\* C6: atomicity of failure. The step in which a confirmation fails the stock
\* validation of an item, at whatever position of the list, leaves every
\* product's stock and the Carrito, Venta, line item, Pago and Envio rows
\* (and the store-customer association) as they were before the request.
C6_FalloAtomico == [][Responde("stock") => UNCHANGED db]_vars

\* C6 witness: a confirmation failed the stock validation at its second item,
\* after it had staged the decrement of the first.
C6_Witness ==
    \E s \in IdsSesion : \E i \in 1..Len(respuestas[s]) :
        /\ respuestas[s][i].tipo = "stock"
        /\ respuestas[s][i].idx = 2

\* the subtotal of the line items of Venta v
SubtotalVenta(v) ==
    Suma([i \in 1..Len(detalles_venta) |->
            IF detalles_venta[i].venta = v
            THEN detalles_venta[i].cantidad * detalles_venta[i].precio_historico
            ELSE 0], Len(detalles_venta))

\* C7: reconciliation gate. Every Venta was charged exactly its recomputed
\* subtotal plus calcular_costo_envio of it; and a confirmation that has
\* recomputed a total different from the amount charged ends with the
\* total-mismatch error and changes no stock and leaves no row behind.
C7_Reconciliacion ==
    /\ [](\A v \in 1..Len(ventas) :
            \E i \in 1..Len(pagos) :
                /\ pagos[i].venta = v
                /\ sesiones[pagos[i].stripe_payment_intent_id].amount_total
                      * Centavo
                   = SubtotalVenta(v) + calcular_costo_envio(SubtotalVenta(v)))
    /\ [][\A w \in Workers :
            ( /\ req[w].pc = "materializar"
              /\ req'[w].pc = "idle"
              /\ req[w].subtotal + calcular_costo_envio(req[w].subtotal)
                    # sesiones[req[w].sesion].amount_total * Centavo )
            => (Responde("total") /\ UNCHANGED db)]_vars

\* C7 witness: a confirmation was rejected for a total mismatch (the price
\* of a product changed after the session was created).
C7_Witness ==
    \E s \in IdsSesion : \E i \in 1..Len(respuestas[s]) :
        respuestas[s][i].tipo = "total"

\* The tier table as the specification states it, in bolivianos
TablaDeTramos(subtotal) ==
    CASE subtotal = 0 -> 0
      [] 0 < subtotal /\ subtotal < 100 * Boliviano -> 15
      [] 100 * Boliviano <= subtotal /\ subtotal < 500 * Boliviano -> 10
      [] 500 * Boliviano <= subtotal /\ subtotal < 1000 * Boliviano -> 5
      [] subtotal >= 1000 * Boliviano -> 0

\* C8: calcular_costo_envio follows the tier table for every subtotal: its
\* result is within half a cent of the table's percentage of the subtotal
\* (100 * 100 result units = subtotal units * pct), and 50 -> 7.50,
\* 250 -> 25.00, 750 -> 37.50, 1000 -> 0.
C8_TablaDeTramos ==
    costo_out # -1 =>
        /\ 2 * (100 * costo_out - subtotal_in * TablaDeTramos(subtotal_in))
              <= 100 * Centavo
        /\ 2 * (subtotal_in * TablaDeTramos(subtotal_in) - 100 * costo_out)
              <= 100 * Centavo
        /\ subtotal_in = 50 * Boliviano => costo_out = 75000
        /\ subtotal_in = 250 * Boliviano => costo_out = 250000
        /\ subtotal_in = 750 * Boliviano => costo_out = 375000
        /\ subtotal_in = 1000 * Boliviano => costo_out = 0

\* C8 witness: the boundary 100.00 was computed in the 10% tier.
C8_Witness ==
    /\ subtotal_in = 100 * Boliviano
    /\ costo_out = 10 * Boliviano

\* C9: the result in cents is floor(subtotal_cents * pct / 100 + 1/2)
\* (half-up) for every subtotal of whole cents.
C9_RedondeoHalfUp ==
    costo_out # -1 =>
        costo_out = Centavo *
            RoundHalfUp((subtotal_in \div Centavo)
                            * porcentaje_envio(subtotal_in), 100)

\* C10: quote and verification agree. While the prices of a session's
\* products are those it was quoted at, the amount charged through its line
\* items equals the subtotal plus calcular_costo_envio recomputed at current
\* prices; and a confirmation that read the quoted prices under its locks is
\* never rejected by the reconciliation gate.
C10_CotizacionCoincide ==
    /\ [](\A s \in IdsSesion :
            (\A i \in 1..Len(sesiones[s].items) :
                precio[sesiones[s].items[i].producto_id]
                    = sesiones[s].cotizado[sesiones[s].items[i].producto_id])
            => sesiones[s].amount_total * Centavo
                 = Subtotal(sesiones[s].items, precio)
                   + calcular_costo_envio(Subtotal(sesiones[s].items, precio)))
    /\ [][\A w \in Workers :
            ( /\ req[w].pc = "materializar"
              /\ req'[w].pc = "idle"
              /\ \A i \in 1..Len(req[w].tomados) :
                    req[w].tomados[i].precio_unitario
                      = sesiones[req[w].sesion].cotizado[
                            req[w].tomados[i].producto] )
            => ~Responde("total")]_vars

\* C10 witness: two sessions were settled at their quoted prices, one with a
\* shipping line and one whose shipping is 0 and has no shipping line.
C10_Witness ==
    /\ Len(sesiones) = 2
    /\ \A s \in {1, 2} : Respuestas(s, "ok") = 1
    /\ calcular_costo_envio(
          Subtotal(sesiones[1].items, sesiones[1].cotizado)) > 0
    /\ calcular_costo_envio(
          Subtotal(sesiones[2].items, sesiones[2].cotizado)) = 0

\* points the settled Sales have earned, in units of 0.00000001 point
PuntosGanados ==
    Suma([v \in 1..Len(ventas) |-> ventas[v].total * 5], Len(ventas))

\* C11: loyalty accrual. The customer's stored points are exactly 0.05% of
\* the totals of the settled Sales (0.50 for a total of 1000.00).
C11_AcumulacionExacta == puntos * Punto = PuntosGanados

\* C12: a confirmation of a session that is not complete has no side effects.
\* A session that is not complete has no Pago and no confirmation in
\* progress; the step that answers "not completed" changes no stock, no
\* Carrito, Venta, Pago, Envio, association or points, takes no lock and
\* leaves the session as it was, so a later confirmation of the same session
\* finds what a first attempt would.
C12_NoCompletadaSinEfectos ==
    /\ [](\A s \in IdsSesion :
            sesiones[s].status # "complete" =>
                /\ PagosDe(s) = {}
                /\ \A w \in Workers : req[w].sesion # s)
    /\ [][Responde("no_completada") =>
            UNCHANGED <<db, lock, asocLock, req, sesiones>>]_vars

\* C12 witness: a session was confirmed before it was paid, answered "not
\* completed", then paid and confirmed again, and that confirmation settled
\* it: one Venta, and the stock down by the session's quantities once.
C12_Witness ==
    \E s \in IdsSesion :
        /\ Len(respuestas[s]) = 2
        /\ respuestas[s][1].tipo = "no_completada"
        /\ respuestas[s][2].tipo = "ok"
        /\ Cardinality(VentasDe(s)) = 1
        /\ Len(sesiones) = 1 /\ editados = {}
        /\ \A p \in Productos :
              stock[p] = StockInicial - CantidadDe(sesiones[s].items, p)

\* C13: tenant isolation of settlement. Every Venta, its Carrito, its Pago
\* and its Envio reference the store named in the metadata of the session
\* that paid it, and every line item of the Venta names a product of that
\* store.
C13_AislamientoDeTienda ==
    /\ \A v \in 1..Len(ventas) :
         /\ carritos[ventas[v].carrito].tienda = ventas[v].tienda
         /\ \E i \in 1..Len(pagos) :
               /\ pagos[i].venta = v
               /\ pagos[i].tienda = ventas[v].tienda
               /\ sesiones[pagos[i].stripe_payment_intent_id].tienda
                     = ventas[v].tienda
         /\ \E i \in 1..Len(envios) :
               envios[i].venta = v /\ envios[i].tienda = ventas[v].tienda
    /\ \A i \in 1..Len(detalles_venta) :
         tienda_de[detalles_venta[i].producto]
            = ventas[detalles_venta[i].venta].tienda

\* C13 witness: a Venta was settled for one store while the catalogue holds a
\* product of another store.
C13_Witness ==
    \E v \in 1..Len(ventas) : \E p \in Productos :
        /\ tienda_de[p] # ventas[v].tienda
        /\ \E i \in 1..Len(detalles_venta) : detalles_venta[i].venta = v

\* the line items of Venta v
DetallesDe(v) == {i \in 1..Len(detalles_venta) : detalles_venta[i].venta = v}

\* C14: Sale total invariant. For every Venta, the sum of cantidad *
\* precio_historico over its line items plus calcular_costo_envio of that sum
\* equals Venta.total to two decimal places, and the Venta has a Pago, every
\* Pago of it with monto_total equal to Venta.total.
C14_TotalDeVenta ==
    \A v \in 1..Len(ventas) :
        /\ Quantize(SubtotalVenta(v) + calcular_costo_envio(SubtotalVenta(v)),
                    Centavo)
             = Quantize(ventas[v].total, Centavo)
        /\ \E i \in 1..Len(pagos) : pagos[i].venta = v
        /\ \A i \in 1..Len(pagos) :
              pagos[i].venta = v => pagos[i].monto_total = ventas[v].total

\* C14 witness: a Venta of two line items whose total includes a shipping
\* cost, and a Venta whose shipping cost is 0.
C14_Witness ==
    /\ \E v \in 1..Len(ventas) :
          /\ Cardinality(DetallesDe(v)) = 2
          /\ calcular_costo_envio(SubtotalVenta(v)) > 0
          /\ ventas[v].total > SubtotalVenta(v)
    /\ \E v \in 1..Len(ventas) :
          /\ calcular_costo_envio(SubtotalVenta(v)) = 0
          /\ ventas[v].total = SubtotalVenta(v)

\* a step changes the price of a product
CambiaPrecio == precio' # precio

\* The part of C15 about the Sale: a change of price leaves every Venta and
\* every line item (precio_historico, cantidad) as it was and appends exactly
\* one price-history row, for the product, from the old to the new price.
C15_PrecioHistoricoInmutable ==
    [][CambiaPrecio =>
        /\ UNCHANGED <<ventas, detalles_venta, pagos, envios, carritos,
                       detalles_carrito>>
        /\ Len(log_precios') = Len(log_precios) + 1
        /\ \E p \in Productos :
              /\ log_precios'[Len(log_precios')] =
                    [producto |-> p, precio_anterior |-> precio[p],
                     precio_nuevo |-> precio'[p]]
              /\ \A q \in Productos \ {p} : precio'[q] = precio[q]]_vars

\* C15: price immutability. A change of a product's price leaves the Ventas
\* and their line items unchanged, and its only effect is the product's new
\* price and one appended price-history row: stock, store, association and
\* points are as before.
C15_SoloPrecioYLog ==
    [][CambiaPrecio =>
        /\ UNCHANGED <<ventas, detalles_venta, pagos, envios, carritos,
                       detalles_carrito>>
        /\ Len(log_precios') = Len(log_precios) + 1
        /\ UNCHANGED <<stock, tienda_de, asociacion, puntos>>]_vars

\* C16: malformed orders are rejected without side effects. The answer to an
\* order with no items, an unknown store or a quantity that is zero or
\* negative is a 4xx validation error, from crear_sesion_checkout and
\* confirmar_pedido alike, and the step that gives it changes no stock and
\* creates no record; no confirmation of the payment ever raises a stock.
C16_MalformadoRechazado ==
    /\ [](http.status \in {"", "400", "404"})
    /\ [][http' # http => UNCHANGED db]_vars
    /\ [][\A p \in Productos :
            stock'[p] > stock[p] => p \in editados']_vars

\* C17: deterministic lock order. No state is reached in which each of two
\* confirmations holds the row lock of a product the other is waiting for.
C17_SinEsperaCircular ==
    \A w \in Workers : ~(Espera(w) # 0 /\ Espera(Espera(w)) = w)

\* C18: stock is written only under the row lock. Every step that changes
\* the stock of a product is the commit of a transaction that holds the
\* product's row lock and writes the value it derived from the stock read
\* under that lock; so no catalogue edit undoes a confirmation's decrement.
C18_StockSoloBajoBloqueo ==
    [][\A p \in Productos :
          stock'[p] # stock[p] =>
              \E w \in Workers :
                  /\ lock[p] = w
                  /\ \E i \in 1..Len(req[w].tomados) :
                        /\ req[w].tomados[i].producto = p
                        /\ req[w].tomados[i].stock = stock'[p]]_vars

\* C19: bounded confirmation retry. A confirmation request retrieves the
\* payment session once or twice, the second time only after a first
\* retrieval that was not paid, never a third time; and every request that
\* has started ends with a response.
C19_ReintentoAcotado ==
    /\ [](\A w \in Workers :
            /\ req[w].consultas <= 2
            /\ registro[w].consultas <= 2)
    /\ [](\A s \in Sesiones : \A i \in 1..Len(respuestas[s]) :
            respuestas[s][i].consultas \in 1..2)
    /\ [](\A i \in 1..Len(resp_registro) :
            /\ resp_registro[i].consultas \in 1..2
            /\ resp_registro[i].consultas = 2
                  => resp_registro[i].primero = "unpaid")
    /\ \A w \in Workers :
          /\ (req[w].pc # "idle") ~> (req[w].pc = "idle")
          /\ (registro[w].pc # "idle") ~> (registro[w].pc = "idle")

\* C19 witness: a sign-up confirmation found the session unpaid, retrieved it
\* a second time, found it paid and registered the store; and a store
\* checkout was confirmed after its single retrieval.
C19_Witness ==
    /\ \E i \in 1..Len(resp_registro) :
          /\ resp_registro[i].tipo = "registrado"
          /\ resp_registro[i].consultas = 2
    /\ \E s \in IdsSesion : \E i \in 1..Len(respuestas[s]) :
          respuestas[s][i].consultas = 1

\* the Ventas that own Carrito c
VentasDeCarrito(c) == {v \in 1..Len(ventas) : ventas[v].carrito = c}

\* C20: cart ownership. In every committed state each Carrito is owned by
\* exactly one Venta and each Venta owns a Carrito of its own: no operation
\* commits a Carrito without a Venta and no Carrito serves two Ventas.
C20_CarritoConVenta ==
    /\ \A c \in 1..Len(carritos) : Cardinality(VentasDeCarrito(c)) = 1
    /\ \A v \in 1..Len(ventas) : ventas[v].carrito \in 1..Len(carritos)

\* The part of C20 that is about the settlement: every Venta owns a Carrito
\* of its own, that of no other Venta.
C20_VentaConCarritoPropio ==
    /\ \A c \in 1..Len(carritos) : Cardinality(VentasDeCarrito(c)) <= 1
    /\ \A v \in 1..Len(ventas) : ventas[v].carrito \in 1..Len(carritos)

\* C21: salesperson counter on cancellation. The save that takes a Venta
\* with a salesperson from a status other than CANCELADA to CANCELADA lowers
\* ventas_realizadas by exactly 1 (when it is above 0); the save of a Venta
\* that is already CANCELADA leaves the counter as it is.
C21_CancelacionDescuenta ==
    [][\A v \in VentasVendedor :
          (venta_vend[v].existe /\ venta_vend[v].vendedor
             /\ venta_vend'[v].estado = "CANCELADA"
             /\ (venta_vend'[v] # venta_vend[v] \/ guardados' # guardados))
          => IF venta_vend[v].estado # "CANCELADA"
             THEN ventas_realizadas' =
                    IF ventas_realizadas > 0 THEN ventas_realizadas - 1 ELSE 0
             ELSE ventas_realizadas' = ventas_realizadas]_vars

\* C22: the audit log does not change an operation. Two answered trial
\* sign-ups with the same input that took the same path have the same
\* answer and the same durable effect, whatever happened to the audit row
\* of each.
C22_BitacoraSinEfecto ==
    \A h1, h2 \in hist_p :
        (h1.email = h2.email /\ h1.camino = h2.camino)
        => (h1.status = h2.status /\ h1.escrito = h2.escrito)

\* C23: token expiry by inactivity. Once a use of the token was rejected,
\* every use answered later (at a later time) is rejected too: an expired
\* token does not come back.
C23_TokenExpiradoNoVuelve ==
    \A u1, u2 \in usos :
        (~u1.acepta /\ u2.n > u1.n /\ u2.t > u1.t) => ~u2.acepta

\* C24: IsTenantActive by role. Permission is granted exactly to an
\* authenticated user who is superAdmin, or cliente, or admin/vendedor with
\* a store whose estado is ACTIVO or PRUEBA.
C24_PermisoPorRol ==
    permiso # "" =>
        (permiso = "concedido" <=>
            /\ usuario.autenticado
            /\ \/ usuario.rol = "superAdmin"
               \/ usuario.rol = "cliente"
               \/ /\ usuario.rol \in {"admin", "vendedor"}
                  /\ usuario.perfil # ""
                  /\ usuario.estado_tienda \in {"ACTIVO", "PRUEBA"})

\* C25: no lost loyalty update. Every settlement that commits a Venta adds
\* the points of that Venta to the customer's committed points, so after
\* two concurrent settlements the points have grown by the sum of both.
C25_SinActualizacionPerdida ==
    [][Len(ventas') = Len(ventas) + 1 =>
          puntos' * Punto = puntos * Punto + ventas'[Len(ventas')].total * 5]_vars

\* units of product p in the committed lines of all carts
UnidadesPedidas(p) ==
    Suma([i \in 1..Len(detalles_carrito) |->
            IF detalles_carrito[i].producto = p
            THEN detalles_carrito[i].cantidad ELSE 0], Len(detalles_carrito))

\* C26: an order that names a product twice. verificar_sesion_checkout and
\* confirmar_pedido reject it whole: no committed cart holds two lines of one
\* product, the step that answers the duplicate changes no stock and no
\* record, and the committed orders never hold more units of a product than
\* were removed from its stock.
C26_DuplicadoSinSobreventa ==
    /\ [](\A i, j \in 1..Len(detalles_carrito) :
            (i < j /\ detalles_carrito[i].carrito = detalles_carrito[j].carrito)
            => detalles_carrito[i].producto # detalles_carrito[j].producto)
    /\ [](\A p \in Productos : UnidadesPedidas(p) <= StockInicial - stock[p])
    /\ [][Responde("detalle_duplicado") => UNCHANGED db]_vars

\* a paid order with a product twice was confirmed and answered as a
\* duplicate, after another order was committed; its units are in stock
C26_Witness ==
    /\ \E s \in IdsSesion :
          /\ DetalleDuplicado([i \in 1..Len(sesiones[s].items) |->
                  [producto |-> sesiones[s].items[i].producto_id]])
          /\ Respuestas(s, "detalle_duplicado") = 1
    /\ Len(carritos) = 1
    /\ \A p \in Productos : UnidadesPedidas(p) = StockInicial - stock[p]

\* units of product p in the line items of all Sales
UnidadesVendidas(p) ==
    Suma([i \in 1..Len(detalles_venta) |->
            IF detalles_venta[i].producto = p
            THEN detalles_venta[i].cantidad ELSE 0], Len(detalles_venta))

\* C27: every stock decrement is backed by a Sale. For every product the
\* units removed from the initial stock are the units in the line items of
\* the Sales, so confirming a cart and then settling the payment of the same
\* items removes the units once.
C27_StockRespaldadoPorVenta ==
    \A p \in Productos : StockInicial - stock[p] = UnidadesVendidas(p)

\* C28: paid implies settled. The step that answers a confirmation of a
\* complete (charged) session leaves a Pago, and so a Venta, for that
\* session, whatever happened to the stock and the prices since the charge.
C28_PagadoImplicaLiquidado ==
    [][\A s \in IdsSesion :
          (sesiones[s].status = "complete"
             /\ Len(respuestas'[s]) = Len(respuestas[s]) + 1)
          => \E i \in 1..Len(pagos') :
                pagos'[i].stripe_payment_intent_id = s]_vars

\* C29: no Sale of an inactive product. Every Sale line item a confirmation
\* commits is of a product whose estado is True when it is committed.
C29_SinLineaDeInactivo ==
    [][\A i \in 1..Len(detalles_venta') :
          i > Len(detalles_venta) => estado_prod[detalles_venta'[i].producto]]_vars

\* the responses of kind tipo given by confirmar_registro_pago
RespuestasRegistro(tipo) ==
    {i \in 1..Len(resp_registro) : resp_registro[i].tipo = tipo}

\* C30: idempotent sign-up confirmation. Whatever the number and the
\* interleaving of the confirmations of one paid session, there is at most
\* one admin User, with exactly one Tienda, Administrador and
\* PagoSuscripcion; once a confirmation has run its transaction there is
\* exactly one, created by the only call that answers as the registration,
\* and every other call that ran the transaction answered with the login of
\* the registered user.
C30_RegistroIdempotente ==
    /\ cuentas.usuarios <= 1
    /\ cuentas.tiendas = cuentas.usuarios
    /\ cuentas.administradores = cuentas.usuarios
    /\ cuentas.pagos_suscripcion = cuentas.usuarios
    /\ Cardinality(RespuestasRegistro("registrado")) = cuentas.usuarios
    /\ RespuestasRegistro("error_transaccion") = {}
    /\ RespuestasRegistro("ya_registrado") # {} => cuentas.usuarios = 1

\* The same statement against the models the views were written for.
C30_ConModelosDeLasVistas == ModelosDeLasVistas => C30_RegistroIdempotente

====
